---------------------------- MODULE Spec2Model ----------------------------
(***************************************************************************)
(* A model of lc3-vm.c: the LC-3 virtual machine.  The state is the        *)
(* program's globals (memory, reg, running, original_tio), the position    *)
(* of main, and the process environment the code talks to: the files       *)
(* named on the command line, the terminal (its mode and its input         *)
(* queue), the stdio buffer of stdin, and the bytes written to stdout.     *)
(* Every instruction handler is an action made of the fetch of main's      *)
(* loop followed by the handler's body.                                    *)
(***************************************************************************)
EXTENDS Integers, Sequences, FiniteSets, TLC

(***************************************************************************)
(* Bounds of the model.                                                    *)
(***************************************************************************)
\* the number of image paths given on the command line (argc - 1) is at most
MaxArgs == 2
\* the run loop is followed for at most this many instructions
MaxSteps == 6
\* at most this many keys are typed during a run
MaxKeys == 2
\* trap_puts / trap_putsp are followed for at most this many cells past the
\* end of the memory array
MaxOobRun == 2

(***************************************************************************)
(* Program constants.                                                      *)
(***************************************************************************)
\* uint16_t arithmetic is modulo 2^16
WordMod == 65536
UINT16_MAX == 65535

R_R0 == 0
R_R7 == 7
R_PC == 8
R_COND == 9
R_COUNT == 10

OP_BR == 0
OP_ADD == 1
OP_LD == 2
OP_ST == 3
OP_JSR == 4
OP_AND == 5
OP_LDR == 6
OP_STR == 7
OP_RTI == 8
OP_NOT == 9
OP_LDI == 10
OP_STI == 11
OP_JMP == 12
OP_RES == 13
OP_LEA == 14
OP_TRAP == 15

FL_POS == 1
FL_ZRO == 2
FL_NEG == 4

TRAP_GETC == 32
TRAP_OUT == 33
TRAP_PUTS == 34
TRAP_IN == 35
TRAP_PUTSP == 36
TRAP_HALT == 37

\* 0xFE00 and 0xFE02
MR_KBSR == 65024
MR_KBDR == 65026

\* 0x3000
PC_START == 12288

\* uint16_t memory[UINT16_MAX]: the array has UINT16_MAX cells, 0 .. UINT16_MAX-1
MemCells == 0 .. (UINT16_MAX - 1)

(***************************************************************************)
(* C's operators on unsigned 16-bit values.                                *)
(***************************************************************************)
RECURSIVE BitAndN(_, _, _)
BitAndN(a, b, n) ==
    IF n = 0 \/ a = 0 \/ b = 0 THEN 0
    ELSE (IF a % 2 = 1 /\ b % 2 = 1 THEN 1 ELSE 0)
         + 2 * BitAndN(a \div 2, b \div 2, n - 1)

RECURSIVE BitOrN(_, _, _)
BitOrN(a, b, n) ==
    IF n = 0 \/ (a = 0 /\ b = 0) THEN 0
    ELSE (IF a % 2 = 1 \/ b % 2 = 1 THEN 1 ELSE 0)
         + 2 * BitOrN(a \div 2, b \div 2, n - 1)

\* a & b, a | b on ints of up to 32 bits, ~a and the cast to uint16_t
BitAnd(a, b) == BitAndN(a, b, 32)
BitOr(a, b) == BitOrN(a, b, 32)
BitNot16(a) == (WordMod - 1) - a
U16(x) == x % WordMod
Shl(x, n) == x * (2 ^ n)
Shr(x, n) == x \div (2 ^ n)

(***************************************************************************)
(* Helper functions.                                                       *)
(***************************************************************************)
\* sign_extend that returns its argument
sign_extend_keeps(x, bit_count) == x

\* x |= (0xFFFF << bit_count) is computed in int and stored back in a uint16_t
sign_extend(x, bit_count) ==
    IF BitAnd(Shr(x, bit_count - 1), 1) # 0
    THEN U16(BitOr(x, Shl(65535, bit_count)))
    ELSE x

\* FlagFor without the test for zero
FlagForNoZero(v) == IF Shr(v, 15) # 0 THEN FL_NEG ELSE FL_POS

\* the value update_flags stores in reg[R_COND] for the register value v
FlagFor(v) ==
    IF v = 0 THEN FL_ZRO
    ELSE IF Shr(v, 15) # 0 THEN FL_NEG
    ELSE FL_POS

update_flags(s, r) == [s EXCEPT !.reg[R_COND] = FlagFor(s.reg[r])]

change_endian(v) == U16(BitOr(Shl(v, 8), Shr(v, 8)))

(***************************************************************************)
(* The memory array.  It is zero-initialised, so it is kept as the         *)
(* function of its non-zero cells: Cell gives the word of a cell and Store *)
(* writes one.  An index outside MemCells is outside the array: a store    *)
(* there changes no cell of the array, and a load there yields a word the  *)
(* program does not determine (OobWords).                                  *)
(***************************************************************************)
OobWords == {0, 65535}

Cell(mem, a) == IF a \in DOMAIN mem THEN mem[a] ELSE 0

Store(mem, a, v) ==
    IF a \notin MemCells THEN mem
    ELSE [x \in (IF v = 0 THEN DOMAIN mem \ {a} ELSE DOMAIN mem \cup {a}) |->
            IF x = a THEN v ELSE mem[x]]

\* the words a load of memory[a] can yield
Load(mem, a) == IF a \in MemCells THEN {Cell(mem, a)} ELSE OobWords

(***************************************************************************)
(* Standard input.  tty is the terminal's input queue (what select() and   *)
(* read() on STDIN_FILENO see); stdinBuf is the buffer of the stdio stream *)
(* stdin (what getchar() serves first).  The terminal is in non-canonical  *)
(* mode and has no end-of-file.                                            *)
(***************************************************************************)
\* select(1, &readfds, NULL, NULL, &timeout) != 0: the descriptor is readable
check_key(s) == IF s.tty # <<>> THEN 1 ELSE 0

\* getchar(): the next buffered character; with an empty buffer the stream
\* reads all that the terminal holds, and blocks (no outcome) when it holds
\* nothing
getchar(s) ==
    IF s.stdinBuf # <<>>
    THEN {[c |-> Head(s.stdinBuf), s |-> [s EXCEPT !.stdinBuf = Tail(@)]]}
    ELSE IF s.tty # <<>>
    THEN {[c |-> Head(s.tty), s |-> [s EXCEPT !.stdinBuf = Tail(s.tty), !.tty = <<>>]]}
    ELSE {}

Touch(s, a) == [s EXCEPT !.access = @ \cup {a}]

\* memory[a] = v
mem_store(s, a, v) == [Touch(s, a) EXCEPT !.memory = Store(s.memory, a, v)]

\* the outcomes [val, s] of mem_read(addr)
mem_read(s, addr) ==
    LET polled ==
            IF addr = MR_KBSR
            THEN IF check_key(s) # 0
                 THEN {mem_store(g.s, MR_KBDR, U16(g.c)) :
                          g \in getchar(mem_store(s, MR_KBSR, Shl(1, 15)))}
                 ELSE {mem_store(s, MR_KBSR, 0)}
            ELSE {s}
    IN  UNION {{[val |-> v, s |-> Touch(p, addr)] : v \in Load(p.memory, addr)} :
                  p \in polled}

mem_write(s, addr, val) == mem_store(s, addr, val)

(***************************************************************************)
(* Operation functions.  Each takes the machine state s after the fetch    *)
(* (reg[R_PC] already incremented) and the fetched instruction, and gives  *)
(* the set of states the handler can leave.                                *)
(***************************************************************************)
SetReg(s, r, v) == [s EXCEPT !.reg[r] = v]

and(s, instruction) ==
    LET dr == BitAnd(Shr(instruction, 9), 7)
        sr1 == BitAnd(Shr(instruction, 6), 7)
        immediate_flag == BitAnd(Shr(instruction, 5), 1)
        immediate == sign_extend(BitAnd(instruction, 31), 5)
        sr2 == BitAnd(instruction, 7)
    IN  IF immediate_flag # 0
        THEN {update_flags(SetReg(s, dr, BitAnd(s.reg[sr1], immediate)), dr)}
        ELSE {update_flags(SetReg(s, dr, BitAnd(s.reg[sr1], s.reg[sr2])), dr)}

not(s, instruction) ==
    LET dr == BitAnd(Shr(instruction, 9), 7)
        sr == BitAnd(Shr(instruction, 6), 7)
    IN  {update_flags(SetReg(s, dr, BitNot16(s.reg[sr])), dr)}

\* add with the immediate taken as it is, not sign-extended
add_zero_extended(s, instruction) ==
    LET dr == BitAnd(Shr(instruction, 9), 7)
        r1 == BitAnd(Shr(instruction, 6), 7)
        immediate_flag == BitAnd(Shr(instruction, 5), 1)
        immediate == BitAnd(instruction, 31)
        r2 == BitAnd(instruction, 7)
    IN  IF immediate_flag # 0
        THEN {update_flags(SetReg(s, dr, U16(s.reg[r1] + immediate)), dr)}
        ELSE {update_flags(SetReg(s, dr, U16(s.reg[r1] + s.reg[r2])), dr)}

add(s, instruction) ==
    LET dr == BitAnd(Shr(instruction, 9), 7)
        r1 == BitAnd(Shr(instruction, 6), 7)
        immediate_flag == BitAnd(Shr(instruction, 5), 1)
        immediate == sign_extend(BitAnd(instruction, 31), 5)
        r2 == BitAnd(instruction, 7)
    IN  IF immediate_flag # 0
        THEN {update_flags(SetReg(s, dr, U16(s.reg[r1] + immediate)), dr)}
        ELSE {update_flags(SetReg(s, dr, U16(s.reg[r1] + s.reg[r2])), dr)}

\* br without the test of the condition flag
br_always(s, instruction) ==
    LET offset == sign_extend(BitAnd(instruction, 511), 9)
    IN  {SetReg(s, R_PC, U16(s.reg[R_PC] + offset))}

br(s, instruction) ==
    LET offset == sign_extend(BitAnd(instruction, 511), 9)
        cond_flag == BitAnd(Shr(instruction, 9), 7)
    IN  IF BitAnd(cond_flag, s.reg[R_COND]) # 0
        THEN {SetReg(s, R_PC, U16(s.reg[R_PC] + offset))}
        ELSE {s}

jmp(s, instruction) ==
    LET sr == BitAnd(Shr(instruction, 6), 7)
    IN  {SetReg(s, R_PC, s.reg[sr])}

jsr(s, instruction) ==
    LET offset_flag == BitAnd(Shr(instruction, 11), 1)
        s1 == SetReg(s, R_R7, s.reg[R_PC])
        offset == sign_extend(BitAnd(instruction, 2047), 11)
        sr == BitAnd(Shr(instruction, 6), 7)
    IN  IF offset_flag # 0
        THEN {SetReg(s1, R_PC, U16(s1.reg[R_PC] + offset))}
        ELSE {SetReg(s1, R_PC, s1.reg[sr])}

ld(s, instruction) ==
    LET dr == BitAnd(Shr(instruction, 9), 7)
        offset == sign_extend(BitAnd(instruction, 511), 9)
    IN  {update_flags(SetReg(m.s, dr, m.val), dr) :
            m \in mem_read(s, U16(s.reg[R_PC] + offset))}

st(s, instruction) ==
    LET sr == BitAnd(Shr(instruction, 9), 7)
        offset == sign_extend(BitAnd(instruction, 511), 9)
    IN  {mem_write(s, U16(s.reg[R_PC] + offset), s.reg[sr])}

lea(s, instruction) ==
    LET dr == BitAnd(Shr(instruction, 9), 7)
        offset == sign_extend(BitAnd(instruction, 511), 9)
    IN  {update_flags(SetReg(s, dr, U16(s.reg[R_PC] + offset)), dr)}

ldi(s, instruction) ==
    LET dr == BitAnd(Shr(instruction, 9), 7)
        offset == sign_extend(BitAnd(instruction, 511), 9)
    IN  UNION {{update_flags(SetReg(m2.s, dr, m2.val), dr) :
                   m2 \in mem_read(m1.s, m1.val)} :
                 m1 \in mem_read(s, U16(s.reg[R_PC] + offset))}

sti(s, instruction) ==
    LET sr == BitAnd(Shr(instruction, 9), 7)
        offset == sign_extend(BitAnd(instruction, 511), 9)
    IN  {mem_write(m.s, m.val, m.s.reg[sr]) :
            m \in mem_read(s, U16(s.reg[R_PC] + offset))}

ldr(s, instruction) ==
    LET dr == BitAnd(Shr(instruction, 9), 7)
        r1 == BitAnd(Shr(instruction, 6), 7)
        offset == sign_extend(BitAnd(instruction, 63), 6)
    IN  {update_flags(SetReg(m.s, dr, m.val), dr) :
            m \in mem_read(s, U16(s.reg[r1] + offset))}

str(s, instruction) ==
    LET sr == BitAnd(Shr(instruction, 9), 7)
        r1 == BitAnd(Shr(instruction, 6), 7)
        offset == sign_extend(BitAnd(instruction, 63), 6)
    IN  {mem_write(s, U16(s.reg[r1] + offset), s.reg[sr])}

\* abort(): the process is killed by SIGABRT where it stands
Abort(s) == [s EXCEPT !.ended = "abort"]

\* rti as a handler that returns
rti_returns(s, instruction) == {s}

rti(s, instruction) == {Abort(s)}

res(s, instruction) == {Abort(s)}

(***************************************************************************)
(* Trap functions.                                                         *)
(***************************************************************************)
\* "Enter a character: " and "Halting execution\n" as bytes
EnterPrompt ==
    <<69, 110, 116, 101, 114, 32, 97, 32, 99, 104, 97, 114, 97, 99, 116, 101,
      114, 58, 32>>

HaltNotice ==
    <<72, 97, 108, 116, 105, 110, 103, 32, 101, 120, 101, 99, 117, 116, 105,
      111, 110, 10>>

\* putc(c, stdout) with c a char: one byte
putc(s, c) == [s EXCEPT !.out = Append(@, c % 256)]

printf(s, text) == [s EXCEPT !.out = @ \o text]

\* trap_getc followed by update_flags(R_R0)
trap_getc_flags(s) ==
    {update_flags(SetReg(g.s, R_R0, U16(g.c)), R_R0) : g \in getchar(s)}

trap_getc(s) == {SetReg(g.s, R_R0, U16(g.c)) : g \in getchar(s)}

trap_out(s) == {putc(s, s.reg[R_R0])}

\* while (*c) { putc((char)*c, stdout); ++c; } with c = memory + idx.  The
\* pointer is not reduced modulo the array size.
RECURSIVE PutsWalk(_, _)
PutsWalk(s, idx) ==
    IF idx >= UINT16_MAX + MaxOobRun THEN {s}
    ELSE UNION {IF w = 0 THEN {Touch(s, idx)}
                ELSE PutsWalk(putc(Touch(s, idx), w), idx + 1) :
                  w \in Load(s.memory, idx)}

trap_puts(s) == PutsWalk(s, s.reg[R_R0])

trap_in(s) ==
    {SetReg(g.s, R_R0, U16(g.c)) : g \in getchar(printf(s, EnterPrompt))}

\* PutspWord with char2 written also when it is zero
PutspWordBoth(s, w) == putc(putc(s, BitAnd(w, 255)), Shr(w, 8) % 256)

\* char1 = (*c) & 0xFF is always written, char2 = (*c) >> 8 only when non-zero
PutspWord(s, w) ==
    LET s1 == putc(s, BitAnd(w, 255))
        char2 == Shr(w, 8) % 256
    IN  IF char2 # 0 THEN putc(s1, char2) ELSE s1

RECURSIVE PutspWalk(_, _)
PutspWalk(s, idx) ==
    IF idx >= UINT16_MAX + MaxOobRun THEN {s}
    ELSE UNION {IF w = 0 THEN {Touch(s, idx)}
                ELSE PutspWalk(PutspWord(Touch(s, idx), w), idx + 1) :
                  w \in Load(s.memory, idx)}

trap_putsp(s) == PutspWalk(s, s.reg[R_R0])

\* trap_halt without running = 0
trap_halt_running(s) == {printf(s, HaltNotice)}

trap_halt(s) == {[printf(s, HaltNotice) EXCEPT !.running = 0]}

\* trap with a default case that halts
trap_default_halts(s, instruction) ==
    LET trapvect == BitAnd(instruction, 255)
    IN  CASE trapvect = TRAP_PUTS -> trap_puts(s)
          [] trapvect = TRAP_GETC -> trap_getc(s)
          [] trapvect = TRAP_OUT -> trap_out(s)
          [] trapvect = TRAP_IN -> trap_in(s)
          [] trapvect = TRAP_PUTSP -> trap_putsp(s)
          [] OTHER -> trap_halt(s)

trap(s, instruction) ==
    LET trapvect == BitAnd(instruction, 255)
    IN  CASE trapvect = TRAP_PUTS -> trap_puts(s)
          [] trapvect = TRAP_GETC -> trap_getc(s)
          [] trapvect = TRAP_OUT -> trap_out(s)
          [] trapvect = TRAP_IN -> trap_in(s)
          [] trapvect = TRAP_PUTSP -> trap_putsp(s)
          [] trapvect = TRAP_HALT -> trap_halt(s)
          [] OTHER -> {s}

(***************************************************************************)
(* The files of the run.  A path is the sequence of its characters and a   *)
(* file the sequence of its bytes; a path outside DOMAIN Disk cannot be    *)
(* opened.  An image file is a big-endian origin followed by big-endian    *)
(* words.                                                                  *)
(***************************************************************************)
BigEndian(w) == <<w \div 256, w % 256>>

RECURSIVE BigEndianAll(_)
BigEndianAll(ws) ==
    IF ws = <<>> THEN <<>> ELSE BigEndian(Head(ws)) \o BigEndianAll(Tail(ws))

ImageFile(origin, ws) == BigEndian(origin) \o BigEndianAll(ws)

\* LD R1,+5; ADD R2,R1,#-3; AND R3,R1,R2; NOT R4,R3; ST R4,+2; HALT; .FILL 5
ProgArith == <<8709, 5245, 22082, 39167, 14338, 61477, 5>>
\* LEA R0,+4; LDR R1,R0,#0; STR R1,R0,#1; BRn +2; HALT; .FILL x8001
ProgBranch == <<57348, 25088, 29185, 2050, 61477, 32769>>
\* JSR +1; RES; LDI R2,+4; STI R7,+3; JSRR R2; RES; .FILL 0; .FILL x3008;
\* .FILL x3009; JMP R7
ProgCall == <<18433, 53248, 41988, 48643, 16512, 53248, 0, 12296, 12297, 49600>>
\* LDI R0,+3; LDI R1,+2; GETC; OUT; .FILL xFE00 (run as TRAP x00); HALT
ProgKbd == <<40963, 41474, 61472, 61473, 65024, 61477>>
\* LEA R0,+4; PUTS; PUTSP; IN; HALT; .FILL x4200; .FILL x6948; .FILL x0041;
\* .FILL 0
ProgText == <<57348, 61474, 61476, 61475, 61477, 16896, 26952, 65, 0>>
\* LDR R0,R1,#-1; JMP R1
ProgEdge == <<24703, 49216>>
\* LD R0,+2; STR R0,R0,#0; JMP R0; .FILL xFE00
ProgJumpKbsr == <<8194, 28672, 49152, 65024>>
\* JSR +1; HALT; JSRR R7; RES
ProgJsrr == <<18433, 61477, 16832, 53248>>
\* LD R1,+5; ADD R1,R1,R1; AND R2,R1,#-1; ADD R2,R2,#-3; BRzp +1; HALT;
\* .FILL x8001
ProgAdd == <<8709, 4673, 21631, 5309, 1537, 61477, 32769>>
\* LD R0,+4; LD R3,+4; STR R3,R0,#0; PUTS; JMP R0; .FILL xFFFE;
\* .FILL x2401 (LD R2,+1, which the program stores at xFFFE and runs there)
ProgTop == <<8196, 9732, 30208, 61474, 49152, 65534, 9217>>
\* loaded at address 0: LEA R3,-3; ST R3,-3; BRn -4
ProgLow == <<59389, 14333, 2556>>

\* "./lc3-vm", the executable itself: the first bytes of an ELF file
ExePath == <<46, 47, 108, 99, 51, 45, 118, 109>>
ExeBytes == <<127, 69, 76, 70, 2, 1, 1, 0>>
\* "lc3-vm", the name the program has when it is started through PATH: no
\* file of that name is in the working directory
ExeName == <<108, 99, 51, 45, 118, 109>>

\* the image paths "a" .. "l"; "x" names no file
ImagePaths == {<<c>> : c \in 97 .. 108} \cup {<<120>>}

Disk ==
    [p \in {ExePath} \cup {<<c>> : c \in 97 .. 108} |->
        CASE p = <<97>> -> ImageFile(PC_START, ProgArith)
          [] p = <<98>> -> ImageFile(PC_START, ProgBranch)
          [] p = <<99>> -> ImageFile(PC_START, ProgCall)
          [] p = <<100>> -> ImageFile(PC_START, ProgKbd)
          [] p = <<101>> -> ImageFile(PC_START, ProgText)
          [] p = <<102>> -> ImageFile(PC_START, ProgEdge)
          [] p = <<103>> -> ImageFile(PC_START, ProgJumpKbsr)
          [] p = <<104>> -> ImageFile(0, ProgLow)
          [] p = <<105>> -> ImageFile(UINT16_MAX - 1, <<1, 2>>)
          [] p = <<106>> -> ImageFile(PC_START, ProgJsrr)
          [] p = <<107>> -> ImageFile(PC_START, ProgAdd)
          [] p = <<108>> -> ImageFile(PC_START, ProgTop)
          [] OTHER -> ExeBytes]

\* the keys that can be typed: 'a' and 'b'
Keys == {97, 98}

(***************************************************************************)
(* The terminal attributes (struct termios): the two c_lflag bits the code *)
(* clears and, as one field, all the rest.                                 *)
(***************************************************************************)
\* the terminal as the user left it
UserTio == [icanon |-> TRUE, echo |-> TRUE, rest |-> "user"]
\* struct termios original_tio; a zero-initialised global
ZeroTio == [icanon |-> FALSE, echo |-> FALSE, rest |-> "zero"]

VARIABLES
    pc,            \* where main stands: "main", "load", "setup", "start", "loop"
    argv,          \* the command line, argv[1] being C's argv[0]
    i,             \* the index of main's loading loop
    memory,        \* uint16_t memory[UINT16_MAX], its non-zero cells
    reg,           \* uint16_t reg[R_COUNT]
    running,       \* int running
    instruction,   \* main's local: the instruction fetched last
    tty,           \* the terminal's input queue
    stdinBuf,      \* the buffer of the stream stdin
    out,           \* the bytes written to stdout
    access,        \* the indices of memory[] used by the last instruction
    ended,         \* "no", or how the process ended: "exit", "abort", "sigint"
    exit_code,     \* the exit status when ended = "exit"
    term,          \* the attributes of the terminal
    original_tio,  \* struct termios original_tio
    handler,       \* the disposition of SIGINT
    restored,      \* restore_input_buffering has been called
    steps,         \* the number of instructions executed
    keys           \* the number of keys typed

vars ==
    <<pc, argv, i, memory, reg, running, instruction, tty, stdinBuf, out,
      access, ended, exit_code, term, original_tio, handler, restored, steps,
      keys>>

argc == Len(argv)

\* the command lines: the program's own name and up to MaxArgs image paths
RECURSIVE PathLists(_)
PathLists(n) ==
    IF n = 0 THEN {<<>>}
    ELSE PathLists(n - 1) \cup
         {Append(l, p) : l \in {q \in PathLists(n - 1) : Len(q) = n - 1},
                         p \in ImagePaths}

CommandLines == {<<e>> \o l : e \in {ExePath, ExeName}, l \in PathLists(MaxArgs)}

Init ==
    /\ pc = "main"
    /\ argv \in CommandLines
    /\ i = 0
    /\ memory = [x \in {} |-> 0]
    /\ reg = [r \in 0 .. (R_COUNT - 1) |-> 0]
    /\ running = 0
    /\ instruction = 0
    /\ tty = <<>>
    /\ stdinBuf = <<>>
    /\ out = <<>>
    /\ access = {}
    /\ ended = "no"
    /\ exit_code = 0
    /\ term = UserTio
    /\ original_tio = ZeroTio
    /\ handler = "SIG_DFL"
    /\ restored = FALSE
    /\ steps = 0
    /\ keys = 0

(***************************************************************************)
(* Image loading.                                                          *)
(***************************************************************************)
\* fread of n uint16_t on the (little-endian) host: the k-th word read
HostWord(bytes, k) == bytes[2 * k + 1] + 256 * bytes[2 * k + 2]

\* read_image_file: the origin, then at most UINT16_MAX - origin words stored
\* from memory + origin on, each swapped to host order
RECURSIVE StoreWords(_, _, _, _, _)
StoreWords(mem, bytes, origin, k, read) ==
    IF k >= read THEN mem
    ELSE StoreWords(Store(mem, origin + k, change_endian(HostWord(bytes, k + 1))),
                    bytes, origin, k + 1, read)

Min(a, b) == IF a <= b THEN a ELSE b

read_image_file(mem, bytes) ==
    LET origin == change_endian(HostWord(bytes, 0))
        max_read == UINT16_MAX - origin
        read == Min((Len(bytes) - 2) \div 2, max_read)
    IN  StoreWords(mem, bytes, origin, 0, read)

\* "lc3-vm [image-file1] ...\n" and "Failed to load image "
UsageText ==
    <<108, 99, 51, 45, 118, 109, 32, 91, 105, 109, 97, 103, 101, 45, 102, 105,
      108, 101, 49, 93, 32, 46, 46, 46, 10>>

FailedText ==
    <<70, 97, 105, 108, 101, 100, 32, 116, 111, 32, 108, 111, 97, 100, 32, 105,
      109, 97, 103, 101, 32>>

NewLine == <<10>>

(***************************************************************************)
(* main, up to the run loop.                                               *)
(***************************************************************************)
machine == <<memory, reg, running, instruction, tty, stdinBuf, access, steps, keys>>
host == <<term, original_tio, handler, restored>>

\* if (argc < 2) { printf(usage); exit(2); }
Usage ==
    /\ pc = "main" /\ ended = "no"
    /\ argc < 2
    /\ out' = out \o UsageText
    /\ ended' = "exit" /\ exit_code' = 2
    /\ UNCHANGED <<pc, argv, i, machine, host>>

CheckArgs ==
    /\ pc = "main" /\ ended = "no"
    /\ ~(argc < 2)
    /\ pc' = "load"
    /\ UNCHANGED <<argv, i, out, ended, exit_code, machine, host>>

\* one pass of for (int i = 0; i < argc; ++i) in which read_image succeeds
ReadImage ==
    /\ pc = "load" /\ ended = "no"
    /\ i < argc
    /\ argv[i + 1] \in DOMAIN Disk
    /\ memory' = read_image_file(memory, Disk[argv[i + 1]])
    /\ i' = i + 1
    /\ UNCHANGED <<pc, argv, reg, running, instruction, tty, stdinBuf, out,
                   access, ended, exit_code, host, steps, keys>>

\* a failed pass that goes on to the next path instead of exiting
LoadFailedContinues ==
    /\ pc = "load" /\ ended = "no"
    /\ i < argc
    /\ argv[i + 1] \notin DOMAIN Disk
    /\ out' = out \o FailedText \o argv[i + 1] \o NewLine
    /\ i' = i + 1
    /\ UNCHANGED <<pc, argv, memory, reg, running, instruction, tty, stdinBuf,
                   access, ended, exit_code, host, steps, keys>>

\* one pass in which fopen fails: printf("Failed to load image %s\n"); exit(1)
LoadFailed ==
    /\ pc = "load" /\ ended = "no"
    /\ i < argc
    /\ argv[i + 1] \notin DOMAIN Disk
    /\ out' = out \o FailedText \o argv[i + 1] \o NewLine
    /\ ended' = "exit" /\ exit_code' = 1
    /\ UNCHANGED <<pc, argv, i, machine, host>>

\* signal(SIGINT, sigint_handler)
InstallHandler ==
    /\ pc = "load" /\ ended = "no"
    /\ ~(i < argc)
    /\ handler' = "sigint_handler"
    /\ pc' = "setup"
    /\ UNCHANGED <<argv, i, out, ended, exit_code, machine, term, original_tio,
                   restored>>

\* disable_input_buffering()
disable_input_buffering ==
    /\ pc = "setup" /\ ended = "no"
    /\ original_tio' = term
    /\ term' = [term EXCEPT !.icanon = FALSE, !.echo = FALSE]
    /\ pc' = "start"
    /\ UNCHANGED <<argv, i, out, ended, exit_code, machine, handler, restored>>

\* reg[R_PC] = PC_START; running = 1;
StartRun ==
    /\ pc = "start" /\ ended = "no"
    /\ reg' = [reg EXCEPT ![R_PC] = PC_START]
    /\ running' = 1
    /\ pc' = "loop"
    /\ UNCHANGED <<argv, i, memory, instruction, tty, stdinBuf, out, access,
                   ended, exit_code, host, steps, keys>>

(***************************************************************************)
(* The run loop: while (running) { fetch; switch (op) ... }.               *)
(***************************************************************************)
Cur ==
    [memory |-> memory, reg |-> reg, running |-> running, tty |-> tty,
     stdinBuf |-> stdinBuf, out |-> out, access |-> {}, ended |-> ended]

\* the fetch without the increment of the PC
FetchNoIncrement(s) ==
    {[val |-> f.val, s |-> f.s] : f \in mem_read(s, s.reg[R_PC])}

\* instruction = mem_read(reg[R_PC]++): the outcomes [val, s] of the fetch
Fetch(s) ==
    {[val |-> f.val, s |-> SetReg(f.s, R_PC, U16(f.s.reg[R_PC] + 1))] :
        f \in mem_read(s, s.reg[R_PC])}

\* the test of while (running)
LoopRunning == pc = "loop" /\ ended = "no" /\ running # 0

\* switch (op): the handler of opcode op
Dispatch(op, s, ins) ==
    CASE op = OP_BR -> br(s, ins)
      [] op = OP_ADD -> add(s, ins)
      [] op = OP_LD -> ld(s, ins)
      [] op = OP_ST -> st(s, ins)
      [] op = OP_JSR -> jsr(s, ins)
      [] op = OP_AND -> and(s, ins)
      [] op = OP_LDR -> ldr(s, ins)
      [] op = OP_STR -> str(s, ins)
      [] op = OP_RTI -> rti(s, ins)
      [] op = OP_NOT -> not(s, ins)
      [] op = OP_LDI -> ldi(s, ins)
      [] op = OP_STI -> sti(s, ins)
      [] op = OP_JMP -> jmp(s, ins)
      [] op = OP_RES -> res(s, ins)
      [] op = OP_LEA -> lea(s, ins)
      [] op = OP_TRAP -> trap(s, ins)
      [] OTHER -> {Abort(s)}

\* one pass of the loop whose instruction has opcode opc
Execute(opc) ==
    /\ steps < MaxSteps
    /\ \E f \in Fetch(Cur) :
          /\ Shr(f.val, 12) = opc
          /\ \E s \in Dispatch(Shr(f.val, 12), f.s, f.val) :
                /\ instruction' = f.val
                /\ memory' = s.memory
                /\ reg' = s.reg
                /\ running' = s.running
                /\ tty' = s.tty
                /\ stdinBuf' = s.stdinBuf
                /\ out' = s.out
                /\ access' = s.access
                /\ ended' = s.ended
    /\ steps' = steps + 1
    /\ UNCHANGED <<pc, argv, i, exit_code, host, keys>>

Br ==
    /\ LoopRunning
    /\ Execute(OP_BR)

Add ==
    /\ LoopRunning
    /\ Execute(OP_ADD)

Ld ==
    /\ LoopRunning
    /\ Execute(OP_LD)

St ==
    /\ LoopRunning
    /\ Execute(OP_ST)

Jsr ==
    /\ LoopRunning
    /\ Execute(OP_JSR)

And ==
    /\ LoopRunning
    /\ Execute(OP_AND)

Ldr ==
    /\ LoopRunning
    /\ Execute(OP_LDR)

Str ==
    /\ LoopRunning
    /\ Execute(OP_STR)

Rti ==
    /\ LoopRunning
    /\ Execute(OP_RTI)

Not ==
    /\ LoopRunning
    /\ Execute(OP_NOT)

Ldi ==
    /\ LoopRunning
    /\ Execute(OP_LDI)

Sti ==
    /\ LoopRunning
    /\ Execute(OP_STI)

Jmp ==
    /\ LoopRunning
    /\ Execute(OP_JMP)

Res ==
    /\ LoopRunning
    /\ Execute(OP_RES)

Lea ==
    /\ LoopRunning
    /\ Execute(OP_LEA)

Trap ==
    /\ LoopRunning
    /\ Execute(OP_TRAP)


\* tcsetattr(STDIN_FILENO, TCSANOW, &original_tio)
restore_input_buffering ==
    /\ term' = original_tio
    /\ restored' = TRUE

\* running is 0: the loop ends, restore_input_buffering(), main returns
ExitLoop ==
    /\ pc = "loop" /\ ended = "no"
    /\ running = 0
    /\ restore_input_buffering
    /\ ended' = "exit" /\ exit_code' = 0
    /\ UNCHANGED <<pc, argv, i, out, machine, original_tio, handler>>

(***************************************************************************)
(* The environment: SIGINT and the keyboard.                               *)
(***************************************************************************)
\* sigint_handler: restore_input_buffering(); printf("\n"); exit(-2)
sigint_handler ==
    /\ ended = "no"
    /\ handler = "sigint_handler"
    /\ restore_input_buffering
    /\ out' = out \o NewLine
    /\ ended' = "exit" /\ exit_code' = (-2) % 256
    /\ UNCHANGED <<pc, argv, i, machine, original_tio, handler>>

\* SIGINT before signal() was called: the default disposition ends the process
SigintDefault ==
    /\ ended = "no"
    /\ handler = "SIG_DFL"
    /\ ended' = "sigint"
    /\ UNCHANGED <<pc, argv, i, out, exit_code, machine, host>>

\* a key is typed while the program runs
KeyPress ==
    /\ pc = "loop" /\ ended = "no"
    /\ keys < MaxKeys
    /\ \E c \in Keys : tty' = Append(tty, c)
    /\ keys' = keys + 1
    /\ UNCHANGED <<pc, argv, i, memory, reg, running, instruction, stdinBuf,
                   out, access, ended, exit_code, host, steps>>

Next ==
    \/ Usage \/ CheckArgs \/ ReadImage \/ LoadFailed
    \/ InstallHandler \/ disable_input_buffering \/ StartRun
    \/ Br \/ Add \/ Ld \/ St \/ Jsr \/ And \/ Ldr \/ Str \/ Rti \/ Not
    \/ Ldi \/ Sti \/ Jmp \/ Res \/ Lea \/ Trap
    \/ ExitLoop \/ sigint_handler \/ SigintDefault \/ KeyPress

Spec == Init /\ [][Next]_vars

(***************************************************************************)
(* Properties.                                                             *)
(***************************************************************************)
Opcode(ins) == ins \div 4096
DestReg(ins) == (ins \div 512) % 8
FlagOps == {OP_ADD, OP_AND, OP_NOT, OP_LD, OP_LDI, OP_LDR, OP_LEA}
IsHalt(ins) == Opcode(ins) = OP_TRAP /\ ins % 256 = TRAP_HALT
IsFatal(ins) == Opcode(ins) \in {OP_RTI, OP_RES}
\* the step executes an instruction
Executes == steps' # steps

\* C1: from the start of the run loop on, the condition flag is exactly one
\* of NEGATIVE, ZERO, POSITIVE.
C1_FlagIsOneOfThree ==
    pc = "loop" => reg[R_COND] \in {FL_NEG, FL_ZRO, FL_POS}

\* C2: every address 0 .. 65535 is a cell of the memory store, so every
\* fetch, mem_read and mem_write uses a cell that belongs to it.
C2_AccessInRange == access \subseteq MemCells

\* C3: on every exit after the terminal was put into raw mode (halt, fatal
\* decode error, interrupt) terminal restoration has been invoked.
C3_RestoredOnEveryExit ==
    (ended # "no" /\ pc \in {"start", "loop"}) => restored

\* the words of a file, read as the image format says (big-endian)
FileWords(bytes) ==
    [k \in 1 .. (Len(bytes) \div 2) |-> 256 * bytes[2 * k - 1] + bytes[2 * k]]
\* the k-th explicitly supplied image: its origin, then its words
Supplied(k) == FileWords(Disk[argv[k + 1]])
Covers(k, a) == (a - Supplied(k)[1]) \in 0 .. (Len(Supplied(k)) - 2)
CoveredBy(a) == {k \in 1 .. (argc - 1) : Covers(k, a)}
Last(ks) == CHOOSE k \in ks : \A j \in ks : j <= k
SuppliedWord(a) ==
    IF CoveredBy(a) = {} THEN 0
    ELSE Supplied(Last(CoveredBy(a)))[a - Supplied(Last(CoveredBy(a)))[1] + 2]
SuppliedAddrs ==
    UNION {{Supplied(k)[1] + j : j \in 0 .. (Len(Supplied(k)) - 2)} :
             k \in 1 .. (argc - 1)}

\* C4: when the run loop starts, memory holds at every address the word of
\* the last supplied image covering it and 0 elsewhere; nothing but the
\* supplied images is loaded.
C4_MemoryIsSuppliedImages ==
    (pc = "loop" /\ steps = 0) =>
        \A a \in DOMAIN memory \cup SuppliedAddrs : Cell(memory, a) = SuppliedWord(a)

\* C5: the loop stops exactly when HALT has executed, on a fatal decode
\* error or on an interrupt; after HALT nothing is fetched and registers
\* and memory no longer change; after any other instruction the loop goes on.
C5_LoopStopsOnHaltFatalInterrupt ==
    [][/\ Executes =>
            (LoopRunning' <=> ~(IsHalt(instruction') \/ IsFatal(instruction')))
       /\ (LoopRunning /\ ~LoopRunning') => (Executes \/ sigint_handler)
       /\ (pc = "loop" /\ running = 0) =>
            (~Executes /\ reg' = reg /\ memory' = memory)]_vars

\* HALT has executed after other instructions and main has returned
C5_Witness ==
    /\ pc = "loop" /\ running = 0 /\ IsHalt(instruction) /\ steps > 1
    /\ ended = "exit" /\ exit_code = 0

\* the registers R0..R7 and the flag
Unchanged(rs) == \A r \in rs : reg'[r] = reg[r]

\* C6 as claimed: an instruction with opcode RTI or RES ends execution in
\* the fatal outcome, nothing is executed after it, and it changes no general
\* register, not the flag and no memory cell.
C6_FatalDecodeChangesNothing ==
    [][/\ (Executes /\ IsFatal(instruction')) =>
            /\ ended' = "abort"
            /\ Unchanged((R_R0 .. R_R7) \cup {R_COND})
            /\ memory' = memory
       /\ ended = "abort" => ~Executes]_vars

\* C6, amended: as claimed, except that an instruction fetched from the
\* status address 0xFE00 has the keyboard poll of its fetch, which changes
\* the cells 0xFE00 and 0xFE02 and no other.
C6_FatalDecode ==
    [][/\ (Executes /\ IsFatal(instruction')) =>
            /\ ended' = "abort"
            /\ Unchanged((R_R0 .. R_R7) \cup {R_COND})
            /\ IF reg[R_PC] = MR_KBSR
               THEN \A a \in (DOMAIN memory \cup DOMAIN memory') \ {MR_KBSR, MR_KBDR} :
                       Cell(memory', a) = Cell(memory, a)
               ELSE memory' = memory
       /\ ended = "abort" => ~Executes]_vars

\* an RTI fetched from the status address has aborted the run
C6_Witness ==
    /\ ended = "abort" /\ IsFatal(instruction)
    /\ reg[R_PC] = MR_KBSR + 1 /\ Cell(memory, MR_KBDR) # 0

\* C7: a load that fails changes no memory cell, the process exits with
\* status 1, and the run loop never starts: no instruction is executed and
\* the terminal is never put into raw mode.
C7_FailedLoad ==
    [][/\ (/\ pc = "load" /\ ended = "no"
           /\ i < argc /\ argv[i + 1] \notin DOMAIN Disk
           /\ ended' # "sigint") =>
            /\ memory' = memory
            /\ ended' = "exit" /\ exit_code' = 1
            /\ pc' = "load" /\ steps' = 0 /\ term' = UserTio
       /\ (ended = "exit" /\ exit_code = 1) =>
            UNCHANGED <<pc, memory, steps, term>>]_vars

\* a load has failed after a supplied image was loaded
C7_Witness ==
    /\ ended = "exit" /\ exit_code = 1
    /\ i = 2 /\ Cell(memory, PC_START) # 0
    /\ steps = 0 /\ term = UserTio

\* the characters the input device holds for the program, oldest first
Pending == stdinBuf \o tty
PendingIn(s) == s.stdinBuf \o s.tty

\* C8: a read of the status address consumes exactly one pending character
\* into 0xFE02 and returns the status with bit 15 set; with no character
\* pending it consumes nothing, leaves 0xFE02, stores 0 at 0xFE00 and
\* returns 0.
C8_StatusRead ==
    LoopRunning =>
        \A m \in mem_read(Cur, MR_KBSR) :
            IF Pending # <<>>
            THEN /\ m.val = 32768
                 /\ Cell(m.s.memory, MR_KBSR) = 32768
                 /\ Cell(m.s.memory, MR_KBDR) = Head(Pending)
                 /\ PendingIn(m.s) = Tail(Pending)
            ELSE /\ m.val = 0
                 /\ Cell(m.s.memory, MR_KBSR) = 0
                 /\ Cell(m.s.memory, MR_KBDR) = Cell(memory, MR_KBDR)
                 /\ PendingIn(m.s) = Pending

\* C9: after ADD, AND, NOT, LD, LDI, LDR or LEA the flag is ZERO iff the
\* destination register is 0, NEGATIVE iff its bit 15 is set, POSITIVE
\* otherwise.
C9_FlagReflectsDest ==
    (steps > 0 /\ Opcode(instruction) \in FlagOps) =>
        reg[R_COND] =
            (IF reg[DestReg(instruction)] = 0 THEN FL_ZRO
             ELSE IF reg[DestReg(instruction)] >= 32768 THEN FL_NEG
             ELSE FL_POS)

\* NOT has left a value with bit 15 set and the flag NEGATIVE
C9_Witness ==
    /\ steps > 0 /\ Opcode(instruction) = OP_NOT
    /\ reg[DestReg(instruction)] >= 32768 /\ reg[R_COND] = FL_NEG

\* C10: BR, JMP, JSR/JSRR, ST, STI, STR and TRAP with any vector leave the
\* condition flag as it was.
C10_OthersKeepFlag ==
    [][(Executes /\ Opcode(instruction') \notin FlagOps) =>
            reg'[R_COND] = reg[R_COND]]_vars

\* GETC has put 'a' in R0 and the flag is not POSITIVE
C10_Witness ==
    /\ steps > 0 /\ instruction = 61472
    /\ reg[R_R0] = 97 /\ reg[R_COND] \in {FL_ZRO, FL_NEG}

\* the low n bits of an instruction read as a two's-complement number
SignedField(ins, n) ==
    IF ins % (2 ^ n) >= 2 ^ (n - 1) THEN (ins % (2 ^ n)) - 2 ^ n ELSE ins % (2 ^ n)
\* the nzp mask of a BR instruction selects the flag value c
MaskSelects(ins, c) ==
    c \in {FL_POS, FL_ZRO, FL_NEG} /\ ((((ins \div 512) % 8) \div c) % 2 = 1)

\* the statement with memory unchanged by every BR
C11_BranchChangesOnlyPc ==
    [][(Executes /\ Opcode(instruction') = OP_BR) =>
            /\ reg'[R_PC] =
                 (IF MaskSelects(instruction', reg[R_COND])
                  THEN (reg[R_PC] + 1 + SignedField(instruction', 9)) % WordMod
                  ELSE (reg[R_PC] + 1) % WordMod)
            /\ Unchanged((R_R0 .. R_R7) \cup {R_COND})
            /\ memory' = memory]_vars

\* C11, amended: a BR fetched from address a sets the PC to
\* (a + 1 + offset9) mod 65536 iff its nzp mask and the flag have a bit in
\* common, and to a + 1 otherwise; R0..R7 and the flag are unchanged, and so
\* is memory, except that a BR fetched from the status address 0xFE00 has had
\* that cell set to 0 by the keyboard poll of its fetch.
C11_Branch ==
    [][(Executes /\ Opcode(instruction') = OP_BR) =>
            /\ reg'[R_PC] =
                 (IF MaskSelects(instruction', reg[R_COND])
                  THEN (reg[R_PC] + 1 + SignedField(instruction', 9)) % WordMod
                  ELSE (reg[R_PC] + 1) % WordMod)
            /\ Unchanged((R_R0 .. R_R7) \cup {R_COND})
            /\ IF reg[R_PC] = MR_KBSR
               THEN \A a \in DOMAIN memory \cup DOMAIN memory' :
                       Cell(memory', a) = (IF a = MR_KBSR THEN 0 ELSE Cell(memory, a))
               ELSE memory' = memory]_vars

\* BRn -4 at address 2 has been taken with the flag NEGATIVE: the PC has
\* wrapped to 0xFFFF
C11_Witness ==
    /\ steps > 0 /\ instruction = 2556
    /\ reg[R_COND] = FL_NEG /\ reg[R_PC] = 65535

\* the address (a + 1 + offset) mod 65536 of an instruction fetched from a
\* whose offset field has n bits
Relative(a, ins, n) == (a + 1 + SignedField(ins, n)) % WordMod
\* the cell is in the store and is not the status register
Plain(a) == a \in MemCells /\ a # MR_KBSR

\* C12: the fetch from address a advances the PC to (a + 1) mod 65536 before
\* the instruction executes, and LD, LDI, LEA, ST, STI, a taken BR and JSR
\* work with (a + 1 + sign-extended offset) mod 65536, wrapping in both
\* directions at the ends of the address space.
C12_PcRelative ==
    [][Executes =>
        LET a == reg[R_PC]
            ins == instruction'
            op == Opcode(ins)
            ea == Relative(a, ins, 9)
        IN  /\ instruction' \in Load(memory, a) \/ a = MR_KBSR
            /\ op \notin {OP_BR, OP_JMP, OP_JSR} => reg'[R_PC] = (a + 1) % WordMod
            /\ op = OP_JSR => reg'[R_R7] = (a + 1) % WordMod
            /\ op = OP_LEA => reg'[DestReg(ins)] = ea
            /\ op = OP_LD =>
                 /\ ea \in access'
                 /\ Plain(ea) => reg'[DestReg(ins)] = Cell(memory, ea)
            /\ op = OP_ST =>
                 /\ ea \in access'
                 /\ ea \in MemCells => Cell(memory', ea) = reg[DestReg(ins)]
            /\ op = OP_LDI =>
                 /\ ea \in access'
                 /\ (Plain(ea) /\ Plain(Cell(memory, ea))) =>
                       reg'[DestReg(ins)] = Cell(memory, Cell(memory, ea))
            /\ op = OP_STI =>
                 /\ ea \in access'
                 /\ (Plain(ea) /\ Cell(memory, ea) \in MemCells) =>
                       Cell(memory', Cell(memory, ea)) = reg[DestReg(ins)]
            /\ (op = OP_BR /\ MaskSelects(ins, reg[R_COND])) => reg'[R_PC] = ea
            /\ (op = OP_JSR /\ (ins \div 2048) % 2 = 1) =>
                 reg'[R_PC] = Relative(a, ins, 11)]_vars

\* LD R2,+1 fetched from 0xFFFE has read address 0 and the PC is 0xFFFF
C12_Witness ==
    /\ steps > 0 /\ instruction = 9217
    /\ reg[R_PC] = 65535 /\ 0 \in access

\* the second operand of an ADD or AND instruction, from the registers rs
Operand(ins, rs) ==
    IF (ins \div 32) % 2 = 1 THEN SignedField(ins, 5) ELSE rs[ins % 8]

\* C13: after ADD the destination holds (sr1 + operand) mod 65536 with the
\* values the registers had before the instruction, also when the
\* destination is sr1 or sr2; no other general register, the PC (beyond
\* the fetch) or memory changes.
C13_Add ==
    [][(Executes /\ Opcode(instruction') = OP_ADD) =>
            /\ reg'[DestReg(instruction')] =
                 (reg[(instruction' \div 64) % 8] + Operand(instruction', reg)) % WordMod
            /\ Unchanged((R_R0 .. R_R7) \ {DestReg(instruction')})
            /\ reg'[R_PC] = (reg[R_PC] + 1) % WordMod
            /\ memory' = memory]_vars

\* ADD R1,R1,R1 has doubled 0x8001 to 2, and ADD R2,R2,#-3 has then taken
\* R2 from 2 to 0xFFFF
C13_Witness ==
    /\ steps > 0 /\ instruction = 5309
    /\ reg[1] = 2 /\ reg[2] = 65535

\* the trap vectors that have a routine
TrapVectors == {TRAP_GETC, TRAP_OUT, TRAP_PUTS, TRAP_IN, TRAP_PUTSP, TRAP_HALT}

\* C14: a TRAP whose vector is not one of 0x20..0x25 is a no-op: R0..R7,
\* the flag, memory, the output, the input device and the running state are
\* unchanged, the PC is only advanced by the fetch, and the loop goes on.
C14_UnknownTrap ==
    [][(/\ Executes
        /\ Opcode(instruction') = OP_TRAP
        /\ instruction' % 256 \notin TrapVectors) =>
            /\ Unchanged((R_R0 .. R_R7) \cup {R_COND})
            /\ reg'[R_PC] = (reg[R_PC] + 1) % WordMod
            /\ UNCHANGED <<memory, out, tty, stdinBuf, running, term>>
            /\ LoopRunning']_vars

\* the word 0xFE00 has run as TRAP x00 after GETC and OUT, and the loop
\* goes on
C14_Witness ==
    /\ steps > 0 /\ instruction = 65024
    /\ out # <<>> /\ LoopRunning

\* the low bytes of the words at a, a + 1, ... (modulo 65536) up to the
\* first zero word, looking at no more than n words
RECURSIVE PutsText(_, _, _)
PutsText(mem, a, n) ==
    IF n = 0 \/ Cell(mem, a) = 0 THEN <<>>
    ELSE <<Cell(mem, a) % 256>> \o PutsText(mem, (a + 1) % WordMod, n - 1)

IsTrap(ins, vector) == Opcode(ins) = OP_TRAP /\ ins % 256 = vector

\* C15: PUTS appends exactly the low bytes of the words at R0, R0 + 1, ...
\* (modulo 65536) up to the first zero word, reads no location outside the
\* addresses 0..65535, and leaves registers, flag and memory unchanged.
C15_PutsWrapsInAddressSpace ==
    [][(Executes /\ IsTrap(instruction', TRAP_PUTS)) =>
            /\ access' \subseteq 0 .. (WordMod - 1)
            /\ out' = out \o PutsText(memory, reg[R_R0], WordMod)
            /\ Unchanged((R_R0 .. R_R7) \cup {R_COND})
            /\ memory' = memory]_vars

\* what PUTSP emits for one non-zero word: the low byte, then the high byte
\* unless it is zero
PackedBytes(w) == IF w \div 256 = 0 THEN <<w % 256>> ELSE <<w % 256, w \div 256>>

\* the texts PUTSP can emit for the words it reads from idx on, up to the
\* first zero word
RECURSIVE PutspTexts(_, _)
PutspTexts(mem, idx) ==
    IF idx >= UINT16_MAX + MaxOobRun THEN {<<>>}
    ELSE UNION {IF w = 0 THEN {<<>>}
                ELSE {PackedBytes(w) \o t : t \in PutspTexts(mem, idx + 1)} :
                  w \in Load(mem, idx)}

\* C16: PUTSP walks the words from the address in R0 to the first zero word
\* and emits for each its low byte and then its high byte, a high byte of
\* zero not being emitted; run on a word 'A' (high byte 0) followed by a
\* zero word it outputs exactly "A".
C16_Putsp ==
    [][(Executes /\ IsTrap(instruction', TRAP_PUTSP)) =>
            /\ \E t \in PutspTexts(memory, reg[R_R0]) : out' = out \o t
            /\ \A a \in DOMAIN memory :
                 (memory[a] = 65 /\ Cell(memory, a + 1) = 0 /\ a + 1 \in MemCells) =>
                    \A s \in trap_putsp(SetReg(Cur, R_R0, a)) : s.out = out \o <<65>>]_vars

\* PUTSP has run on the words x4200, x6948, x0041, 0: after the three
\* characters of PUTS the output is 0, 'B', 'H', 'i', 'A'
C16_Witness ==
    /\ steps > 0 /\ IsTrap(instruction, TRAP_PUTSP)
    /\ out = <<0, 72, 65, 0, 66, 72, 105, 65>>

\* addresses to read: every cell that holds a word, both ends of the
\* address space and the keyboard data register, but not the status register
ProbeAddrs ==
    (DOMAIN memory \cup {0, MR_KBDR, UINT16_MAX - 1, UINT16_MAX}) \ {MR_KBSR}

\* C17: a read of any address other than 0xFE00 returns the stored word and
\* changes no memory cell and consumes no input, so a second read of the
\* address returns the same value.
C17_PlainReadIsPure ==
    LoopRunning =>
        \A addr \in ProbeAddrs : \A m \in mem_read(Cur, addr) :
            /\ m.val = Cell(memory, addr)
            /\ m.s.memory = memory
            /\ m.s.tty = tty /\ m.s.stdinBuf = stdinBuf
            /\ \A n \in mem_read(m.s, addr) : n.val = m.val

(***************************************************************************)
(* sign_extend on every value of every field width: the machine at the     *)
(* start of the run loop with a one-word image, the word being an          *)
(* instruction that sign-extends its low 5, 6, 9 or 11 bits.               *)
(***************************************************************************)
\* ADD R1,R0,#x; LDR R1,R0,#x; LEA R1,x; JSR x, for every x
SignExtendWords ==
    {4640 + x : x \in 0 .. 31} \cup {25088 + x : x \in 0 .. 63}
        \cup {57856 + x : x \in 0 .. 511} \cup {18432 + x : x \in 0 .. 2047}

\* the state of "./lc3-vm p" when the loop starts, p holding one word
InitSignExtend ==
    /\ pc = "loop"
    /\ argv = <<ExePath, <<112>>>>
    /\ i = 2
    /\ \E w \in SignExtendWords :
          memory = read_image_file(read_image_file([x \in {} |-> 0], ExeBytes),
                                   ImageFile(PC_START, <<w>>))
    /\ reg = [r \in 0 .. (R_COUNT - 1) |-> IF r = R_PC THEN PC_START ELSE 0]
    /\ running = 1
    /\ instruction = 0
    /\ tty = <<>>
    /\ stdinBuf = <<>>
    /\ out = <<>>
    /\ access = {}
    /\ ended = "no"
    /\ exit_code = 0
    /\ term = [UserTio EXCEPT !.icanon = FALSE, !.echo = FALSE]
    /\ original_tio = UserTio
    /\ handler = "sigint_handler"
    /\ restored = FALSE
    /\ steps = 0
    /\ keys = 0

NextSignExtend == Add \/ Ldr \/ Lea \/ Jsr

SpecSignExtend == InitSignExtend /\ [][NextSignExtend]_vars

\* the width of the field the instruction sign-extends
FieldWidth(ins) ==
    CASE Opcode(ins) = OP_ADD -> 5
      [] Opcode(ins) = OP_LDR -> 6
      [] Opcode(ins) = OP_LEA -> 9
      [] Opcode(ins) = OP_JSR -> 11

\* x with the bits n..15 set when bit n-1 of x is 1
Extended(x, n) == IF x < 2 ^ (n - 1) THEN x ELSE x + WordMod - 2 ^ n

\* C18: for n in {5, 6, 9, 11} and every n-bit x, sign_extend(x, n) is x
\* when bit n-1 of x is 0 and x + 65536 - 2^n when it is 1, a 16-bit value;
\* the instruction that extends x works with that value.
C18_SignExtend ==
    LET w == Cell(memory, PC_START)
        n == FieldWidth(w)
        x == w % (2 ^ n)
    IN  /\ n \in {5, 6, 9, 11}
        /\ sign_extend(x, n) = Extended(x, n)
        /\ sign_extend(x, n) \in 0 .. (WordMod - 1)
        /\ steps = 1 =>
             CASE n = 5 -> reg[1] = Extended(x, n)
               [] n = 6 -> Extended(x, n) \in access
               [] n = 9 -> reg[1] = (PC_START + 1 + Extended(x, n)) % WordMod
               [] n = 11 -> reg[R_PC] = (PC_START + 1 + Extended(x, n)) % WordMod

\* JSR with offset11 = x400, the most negative one, has gone from 0x3001
\* back 1024 words to 0x2C01
C18_Witness ==
    /\ steps = 1 /\ instruction = 18432 + 1024
    /\ sign_extend(1024, 11) = 64512 /\ reg[R_PC] = 11265

\* C19: after JSR/JSRR fetched from a, R7 is (a + 1) mod 65536; in JSR mode
\* the PC is (a + 1 + offset11) mod 65536, in JSRR mode it is the value the
\* base register had before the instruction, for every base register,
\* R7 included.
C19_JsrLinksAndJumps ==
    [][(Executes /\ Opcode(instruction') = OP_JSR) =>
            /\ reg'[R_R7] = (reg[R_PC] + 1) % WordMod
            /\ reg'[R_PC] =
                 (IF (instruction' \div 2048) % 2 = 1
                  THEN Relative(reg[R_PC], instruction', 11)
                  ELSE reg[(instruction' \div 64) % 8])]_vars

\* C20: terminal restoration never runs before the terminal mode has been
\* saved: whenever the interrupt handler or the normal exit has restored the
\* terminal, the raw-mode setup had run and the mode put back is the one it
\* captured.
C20_RestoresSavedMode ==
    restored => (pc \in {"start", "loop"} /\ term = UserTio)

=============================================================================
